---- MODULE Spec2Model ----
(***************************************************************************)
(* Model of src/src/main.py ("Rays"): a light source moved by pointer and  *)
(* keyboard inside a canvas, walls that rotate about their centres, the    *)
(* collision response of the light source and the ray casting.            *)
(*                                                                         *)
(* Numbers.  The program computes in IEEE doubles; the model computes in   *)
(* integers.  In the frame loop (Spec) lengths are pixels rounded to the   *)
(* nearest integer, DELTA_TIME is kept in milliseconds (the value of       *)
(* CLOCK.tick before the division by 1000) and an angle of rotation is a   *)
(* whole number of degrees.  An angle returned by atan2 is represented by  *)
(* the pair <<dx, dy>> it is the angle of.  The ray functions (SpecRay)    *)
(* are computed exactly, over the rationals: a point is a triple           *)
(* [xn, yn, d] standing for (xn/d, yn/d) with d > 0.                       *)
(***************************************************************************)
EXTENDS Integers, Sequences, FiniteSets, TLC

VARIABLES
    pc,          \* position in the main loop / in the function under test
    running,     \* main.py:318
    frame,       \* number of completed iterations of the main loop
    keys,        \* keys held in this frame (pygame.key.get_pressed)
    mouse,       \* pointer position of this frame (pygame.mouse.get_pos)
    button,      \* left mouse button of this frame
    pos,         \* LightSource.pos
    mouse_old,   \* LightSource._mouse_x_old, _mouse_y_old
    WALLS,       \* main.py:297, the wall objects (endpoints mutated by rotate)
    SPEED_MOV,   \* main.py:15
    SPEED_ROT,   \* main.py:16
    DELTA_TIME,  \* main.py:17, in milliseconds
    draw_i,      \* index into DRAWABLES of the object drawn next
    ray_i,       \* loop variable i of LightSource.draw_rays
    SCREEN,      \* what has been drawn since SCREEN.fill, in drawing order
    args,        \* arguments of the function under test (function specs)
    ret          \* its result

vars == <<pc, running, frame, keys, mouse, button, pos, mouse_old, WALLS,
          SPEED_MOV, SPEED_ROT, DELTA_TIME, draw_i, ray_i, SCREEN, args, ret>>

frameVars == <<running, frame, keys, mouse, button, pos, mouse_old, WALLS,
               SPEED_MOV, SPEED_ROT, DELTA_TIME, draw_i, ray_i, SCREEN>>

-----------------------------------------------------------------------------
(* Program constants                                                       *)

CANVAS_WIDTH == 1600

CANVAS_HEIGHT == 900

_SPEED == 100

MS_PER_SECOND == 1000

\* Python's None, a record so that it compares with points
NONE == [none |-> TRUE]

Point(x, y) == [x |-> x, y |-> y]

\* cls is the class of the object: "Wall" rotates in draw, "BoundaryWall" does not
Segment(cls, s, e) == [cls |-> cls, start |-> s, end |-> e]

InitialWalls ==
    << Segment("Wall", Point(300, 100), Point(500, 300)),
       Segment("Wall", Point(200, 600), Point(500, 800)),
       Segment("Wall", Point(600, 300), Point(600, 500)),
       Segment("Wall", Point(800, 600), Point(1000, 600)),
       Segment("Wall", Point(1200, 100), Point(1200, 700)),
       Segment("BoundaryWall", Point(0, 0), Point(CANVAS_WIDTH, 0)),
       Segment("BoundaryWall", Point(0, 0), Point(0, CANVAS_HEIGHT)),
       Segment("BoundaryWall", Point(CANVAS_WIDTH, 0), Point(CANVAS_WIDTH, CANVAS_HEIGHT)),
       Segment("BoundaryWall", Point(0, CANVAS_HEIGHT), Point(CANVAS_WIDTH, CANVAS_HEIGHT)) >>

-----------------------------------------------------------------------------
(* Arithmetic                                                              *)

Abs(n) == IF n < 0 THEN -n ELSE n

Max(a, b) == IF a >= b THEN a ELSE b

Min(a, b) == IF a <= b THEN a ELSE b

\* n / d rounded to the nearest integer, halves away from zero (d > 0)
RoundDiv(n, d) ==
    IF n >= 0 THEN (2 * n + d) \div (2 * d)
              ELSE -((2 * (-n) + d) \div (2 * d))

RECURSIVE ISqrtIter(_, _, _)
ISqrtIter(n, lo, hi) ==
    IF lo >= hi THEN lo
    ELSE LET mid == (lo + hi + 1) \div 2
         IN  IF mid * mid <= n THEN ISqrtIter(n, mid, hi)
                               ELSE ISqrtIter(n, lo, mid - 1)

\* floor of the square root
ISqrt(n) == ISqrtIter(n, 0, 46340)

\* math.hypot(dx, dy) in tenths
Hypot10(dx, dy) == ISqrt(100 * (dx * dx + dy * dy))

\* sin of 0..90 degrees, times 10000
SinTab ==
    << 0, 175, 349, 523, 698, 872, 1045, 1219, 1392, 1564,
       1736, 1908, 2079, 2250, 2419, 2588, 2756, 2924, 3090, 3256,
       3420, 3584, 3746, 3907, 4067, 4226, 4384, 4540, 4695, 4848,
       5000, 5150, 5299, 5446, 5592, 5736, 5878, 6018, 6157, 6293,
       6428, 6561, 6691, 6820, 6947, 7071, 7193, 7314, 7431, 7547,
       7660, 7771, 7880, 7986, 8090, 8192, 8290, 8387, 8480, 8572,
       8660, 8746, 8829, 8910, 8988, 9063, 9135, 9205, 9272, 9336,
       9397, 9455, 9511, 9563, 9613, 9659, 9703, 9744, 9781, 9816,
       9848, 9877, 9903, 9925, 9945, 9962, 9976, 9986, 9994, 9998,
       10000 >>

TrigScale == SinTab[91]

\* math.sin(math.radians(deg)) * TrigScale, deg any integer
SinDeg(deg) ==
    LET a == deg % 360
    IN  IF a <= 90 THEN SinTab[a + 1]
        ELSE IF a <= 180 THEN SinTab[180 - a + 1]
        ELSE IF a <= 270 THEN -SinTab[a - 180 + 1]
        ELSE -SinTab[360 - a + 1]

\* math.cos(math.radians(deg)) * TrigScale
CosDeg(deg) == SinDeg(deg + 90)

-----------------------------------------------------------------------------
(* BoundaryWall                                                            *)

ccw(A, B, C) == (C.y - A.y) * (B.x - A.x) > (B.y - A.y) * (C.x - A.x)

\* a mutant of intersects_line: the second orientation test is dropped
BW_intersects_line_firstOnly(self, line) ==
    ccw(self.start, line.start, line.end) /= ccw(self.end, line.start, line.end)

BW_intersects_line(self, line) ==
    LET A == self.start
        B == self.end
        C == line.start
        D == line.end
    IN  /\ ccw(A, C, D) /= ccw(B, C, D)
        /\ ccw(A, B, C) /= ccw(A, B, D)

\* the arguments <<dx_line, dy_line>> of atan2: the angle they denote
get_angle(self, direction) ==
    IF direction = "LEFT"
    THEN <<self.start.x - self.end.x, self.start.y - self.end.y>>
    ELSE <<self.end.x - self.start.x, self.end.y - self.start.y>>

\* atan2(dy, dx) in [pi, -pi, pi/2, -pi/2].  atan2 is +-pi/2 exactly when
\* dx = 0 and dy /= 0, pi when dy = +0 and dx < 0, and -pi only for dy = -0.0,
\* which a difference of two doubles never is.  atan2 = 0 is not in the list.
AngleInBlockList(angle) ==
    \/ angle[1] = 0 /\ angle[2] /= 0
    \/ angle[2] = 0 /\ angle[1] < 0

\* Wall.rotate: both endpoints turned about the centre by angle_degrees.
\* The centre is (start + end) / 2, so translated_end = (end - start) / 2;
\* the halves are kept as numerators over 2.
rotate(self, angle_degrees) ==
    LET c == CosDeg(angle_degrees)
        s == SinDeg(angle_degrees)
        cx2 == self.start.x + self.end.x
        cy2 == self.start.y + self.end.y
        tex2 == self.end.x - self.start.x
        tey2 == self.end.y - self.start.y
        tsx2 == self.start.x - self.end.x
        tsy2 == self.start.y - self.end.y
        rsx == tsx2 * c - tsy2 * s
        rsy == tsx2 * s + tsy2 * c
        rex == tex2 * c - tey2 * s
        rey == tex2 * s + tey2 * c
    IN  [self EXCEPT
            !.end = Point(RoundDiv(rex + cx2 * TrigScale, 2 * TrigScale),
                          RoundDiv(rey + cy2 * TrigScale, 2 * TrigScale)),
            !.start = Point(RoundDiv(rsx + cx2 * TrigScale, 2 * TrigScale),
                            RoundDiv(rsy + cy2 * TrigScale, 2 * TrigScale))]

-----------------------------------------------------------------------------
(* LightSource.intersects_any_line                                         *)

\* the position slid to: self.pos + (cos, sin)(wall_angle) * move_length
SlideAlong(self_pos, new_pos, wall_angle) ==
    LET move10 == Hypot10(new_pos.x - self_pos.x, new_pos.y - self_pos.y)
        wall10 == Hypot10(wall_angle[1], wall_angle[2])
    IN  Point(self_pos.x + RoundDiv(wall_angle[1] * move10, wall10),
              self_pos.y + RoundDiv(wall_angle[2] * move10, wall10))

\* the body of the loop for a wall that crosses temp_line
ResolveAgainst(self_pos, new_pos, direction, wall) ==
    LET wall_angle == get_angle(wall, direction)
    IN  IF AngleInBlockList(wall_angle)
        THEN self_pos
        ELSE SlideAlong(self_pos, new_pos, wall_angle)

RECURSIVE ScanWalls(_, _, _, _, _)
ScanWalls(self_pos, new_pos, direction, walls, i) ==
    IF i > Len(walls) THEN new_pos
    ELSE IF BW_intersects_line(Segment("Wall", self_pos, new_pos), walls[i])
         THEN ResolveAgainst(self_pos, new_pos, direction, walls[i])
         ELSE ScanWalls(self_pos, new_pos, direction, walls, i + 1)

RECURSIVE ScanWallsBack(_, _, _, _, _)
ScanWallsBack(self_pos, new_pos, direction, walls, i) ==
    IF i < 1 THEN new_pos
    ELSE IF BW_intersects_line(Segment("Wall", self_pos, new_pos), walls[i])
         THEN ResolveAgainst(self_pos, new_pos, direction, walls[i])
         ELSE ScanWallsBack(self_pos, new_pos, direction, walls, i - 1)

\* a mutant of intersects_any_line: the last crossing wall of the list decides
intersects_any_line_lastHit(self_pos, new_pos, direction, walls) ==
    ScanWallsBack(self_pos, new_pos, direction, walls, Len(walls))

intersects_any_line(self_pos, new_pos, direction, walls) ==
    ScanWalls(self_pos, new_pos, direction, walls, 1)

-----------------------------------------------------------------------------
(* The main loop, one frame per iteration                                  *)

\* frames explored
MaxFrames == 2

\* rays of one fan (LightSource(ray_density=1440) in the program)
ray_density == 2

\* values of CLOCK.tick(FPS_TARGET), in milliseconds
DeltaTimes == {17, 900}

\* pointer positions inside the window
PointerPositions == {Point(0, 0), Point(410, 200), Point(250, 840)}

\* what the event queue and the keyboard hold in one frame
FrameInputs ==
    { [quit |-> FALSE, keys |-> {}, button |-> FALSE],
      [quit |-> FALSE, keys |-> {"s"}, button |-> FALSE],
      [quit |-> FALSE, keys |-> {"w", "SPACE"}, button |-> FALSE],
      [quit |-> FALSE, keys |-> {"RSHIFT", "a", "SPACE"}, button |-> FALSE],
      [quit |-> FALSE, keys |-> {"RSHIFT", "d"}, button |-> TRUE],
      [quit |-> FALSE, keys |-> {"LSHIFT", "a", "d"}, button |-> FALSE],
      [quit |-> FALSE, keys |-> {"RSHIFT", "LSHIFT", "EQUALS", "RIGHT"}, button |-> FALSE],
      [quit |-> FALSE, keys |-> {"MINUS", "LEFT", "a"}, button |-> FALSE],
      [quit |-> FALSE, keys |-> {"ESCAPE", "d", "w"}, button |-> TRUE],
      [quit |-> TRUE, keys |-> {}, button |-> FALSE] }

\* a mutant of DRAWABLES: the light source is drawn before the walls
DRAWABLES_lightFirst ==
    [i \in 1..(Len(InitialWalls) + 1) |->
        IF i = 1 THEN [kind |-> "light", idx |-> 0]
                 ELSE [kind |-> "wall", idx |-> i - 1]]

\* the objects drawn each frame, walls by their index in WALLS
DRAWABLES ==
    [i \in 1..(Len(InitialWalls) + 1) |->
        IF i <= Len(InitialWalls) THEN [kind |-> "wall", idx |-> i]
                                  ELSE [kind |-> "light", idx |-> 0]]

\* the speed adjustments of the main loop
AdjustMov(speed, k) ==
    LET s1 == IF "EQUALS" \in k THEN speed + 1 ELSE speed
        s2 == IF "MINUS" \in k THEN Abs(s1 - 1) ELSE s1
    IN  IF "ESCAPE" \in k THEN _SPEED ELSE s2

AdjustRot(speed, k) ==
    LET s1 == IF "LEFT" \in k THEN Abs(speed - 1) ELSE speed
        s2 == IF "RIGHT" \in k THEN s1 + 1 ELSE s1
    IN  IF "ESCAPE" \in k THEN _SPEED ELSE s2

\* SPEED_MOV * DELTA_TIME, in pixels
MoveStep == RoundDiv(SPEED_MOV * DELTA_TIME, MS_PER_SECOND)

\* SPEED_ROT * DELTA_TIME, in degrees
RotStep == RoundDiv(SPEED_ROT * DELTA_TIME, MS_PER_SECOND)

\* the clamped position a single movement key asks for
Requested(p, key, step) ==
    CASE key = "w" -> Point(p.x, Max(0, p.y - step))
      [] key = "s" -> Point(p.x, Min(CANVAS_HEIGHT, p.y + step))
      [] key = "a" -> Point(Max(0, p.x - step), p.y)
      [] key = "d" -> Point(Min(CANVAS_WIDTH, p.x + step), p.y)

\* the WASD branch of LightSource.draw
FollowKeys(p, k, walls, step) ==
    LET p1 == IF "w" \in k THEN Requested(p, "w", step) ELSE p
        p2 == IF "s" \in k THEN Requested(p1, "s", step) ELSE p1
        p3 == IF "a" \in k
              THEN intersects_any_line(p2, Requested(p2, "a", step), "LEFT", walls)
              ELSE p2
        p4 == IF "d" \in k
              THEN intersects_any_line(p3, Requested(p3, "d", step), "RIGHT", walls)
              ELSE p3
    IN  p4

\* a mutant of MoveLight: the keys are followed after the pointer as well
MoveLight_keysToo(p, old, m, k, walls, step) ==
    IF old /= m
    THEN [pos |-> FollowKeys(m, k, walls, step), old |-> m]
    ELSE [pos |-> FollowKeys(p, k, walls, step), old |-> old]

\* the position update of LightSource.draw: the new pos and _mouse_old
MoveLight(p, old, m, k, walls, step) ==
    IF old /= m
    THEN [pos |-> m, old |-> m]
    ELSE [pos |-> FollowKeys(p, k, walls, step), old |-> old]

Init ==
    /\ pc = "loop"
    /\ running = TRUE
    /\ frame = 0
    /\ keys = {}
    /\ mouse = Point(0, 0)
    /\ button = FALSE
    /\ pos = Point(0, 0)
    /\ mouse_old = Point(0, 0)
    /\ WALLS = InitialWalls
    /\ SPEED_MOV = _SPEED
    /\ SPEED_ROT = _SPEED
    /\ DELTA_TIME = 0
    /\ draw_i = 1
    /\ ray_i = 1
    /\ SCREEN = <<>>
    /\ args = NONE
    /\ ret = NONE

\* while running: the event loop, the speed adjustments and SCREEN.fill
BeginFrame ==
    /\ pc = "loop"
    /\ running
    /\ frame < MaxFrames
    /\ \E inp \in FrameInputs, m \in PointerPositions :
          /\ running' = ~inp.quit
          /\ keys' = inp.keys
          /\ button' = inp.button
          /\ mouse' = m
          /\ SPEED_MOV' = AdjustMov(SPEED_MOV, inp.keys)
          /\ SPEED_ROT' = AdjustRot(SPEED_ROT, inp.keys)
    /\ SCREEN' = <<>>
    /\ draw_i' = 1
    /\ pc' = "draw"
    /\ UNCHANGED <<frame, pos, mouse_old, WALLS, DELTA_TIME, ray_i, args, ret>>

\* Wall.draw: rotate one way at a time, then draw the line
WallDraw ==
    /\ pc = "draw"
    /\ draw_i <= Len(DRAWABLES)
    /\ DRAWABLES[draw_i].kind = "wall"
    /\ WALLS[DRAWABLES[draw_i].idx].cls = "Wall"
    /\ LET i == DRAWABLES[draw_i].idx
           w == IF "RSHIFT" \in keys THEN rotate(WALLS[i], RotStep)
                ELSE IF "LSHIFT" \in keys THEN rotate(WALLS[i], -RotStep)
                ELSE WALLS[i]
       IN  /\ WALLS' = [WALLS EXCEPT ![i] = w]
           /\ SCREEN' = Append(SCREEN, [kind |-> "line", start |-> w.start, end |-> w.end])
    /\ draw_i' = draw_i + 1
    /\ UNCHANGED <<pc, running, frame, keys, mouse, button, pos, mouse_old,
                   SPEED_MOV, SPEED_ROT, DELTA_TIME, ray_i, args, ret>>

\* BoundaryWall.draw: draw the line
BoundaryWallDraw ==
    /\ pc = "draw"
    /\ draw_i <= Len(DRAWABLES)
    /\ DRAWABLES[draw_i].kind = "wall"
    /\ WALLS[DRAWABLES[draw_i].idx].cls = "BoundaryWall"
    /\ LET w == WALLS[DRAWABLES[draw_i].idx]
       IN  SCREEN' = Append(SCREEN, [kind |-> "line", start |-> w.start, end |-> w.end])
    /\ draw_i' = draw_i + 1
    /\ UNCHANGED <<pc, running, frame, keys, mouse, button, pos, mouse_old, WALLS,
                   SPEED_MOV, SPEED_ROT, DELTA_TIME, ray_i, args, ret>>

\* LightSource.draw up to the call of draw_rays
LightSourceDraw ==
    /\ pc = "draw"
    /\ draw_i <= Len(DRAWABLES)
    /\ DRAWABLES[draw_i].kind = "light"
    /\ LET r == MoveLight(pos, mouse_old, mouse, keys, WALLS, MoveStep)
       IN  /\ pos' = r.pos
           /\ mouse_old' = r.old
           /\ SCREEN' = Append(SCREEN, [kind |-> "circle", center |-> r.pos])
    /\ IF button \/ "SPACE" \in keys
       THEN /\ pc' = "rays"
            /\ ray_i' = 1
            /\ draw_i' = draw_i
       ELSE /\ pc' = "draw"
            /\ ray_i' = ray_i
            /\ draw_i' = draw_i + 1
    /\ UNCHANGED <<running, frame, keys, mouse, button, WALLS,
                   SPEED_MOV, SPEED_ROT, DELTA_TIME, args, ret>>

\* one iteration of draw_rays: Ray(self.pos, angle, TOTAL_PIXELS, color).draw().
\* The line drawn goes from the source to the end point that _set_end_point
\* computes from the source and the walls as they are at this step, so the
\* screen records the source and the index of the ray.  The end point itself
\* is computed in SpecRay: a direction of magnitude TOTAL_PIXELS = 1440000
\* multiplied by a wall extent does not fit the 32-bit integers of TLC.
RayDraw ==
    /\ pc = "rays"
    /\ ray_i <= ray_density
    /\ SCREEN' = Append(SCREEN, [kind |-> "ray", source |-> pos, i |-> ray_i])
    /\ ray_i' = ray_i + 1
    /\ IF ray_i = ray_density
       THEN pc' = "draw" /\ draw_i' = draw_i + 1
       ELSE pc' = "rays" /\ draw_i' = draw_i
    /\ UNCHANGED <<running, frame, keys, mouse, button, pos, mouse_old, WALLS,
                   SPEED_MOV, SPEED_ROT, DELTA_TIME, args, ret>>

\* show_stats, display.flip and DELTA_TIME = CLOCK.tick(FPS_TARGET) / 1000
Tick ==
    /\ pc = "draw"
    /\ draw_i > Len(DRAWABLES)
    /\ \E ms \in DeltaTimes : DELTA_TIME' = ms
    /\ frame' = frame + 1
    /\ pc' = "loop"
    /\ UNCHANGED <<running, keys, mouse, button, pos, mouse_old, WALLS,
                   SPEED_MOV, SPEED_ROT, draw_i, ray_i, SCREEN, args, ret>>

\* the loop ends: pygame.quit()
Quit ==
    /\ pc = "loop"
    /\ ~running
    /\ pc' = "quit"
    /\ UNCHANGED <<frameVars, args, ret>>

Next ==
    \/ BeginFrame
    \/ WallDraw
    \/ BoundaryWallDraw
    \/ LightSourceDraw
    \/ RayDraw
    \/ Tick
    \/ Quit

Spec == Init /\ [][Next]_vars

-----------------------------------------------------------------------------
(* Ray: exact arithmetic.  RPoint(xn, yn, d) is the point (xn/d, yn/d).   *)

RPoint(xn, yn, d) == [xn |-> xn, yn |-> yn, d |-> d]

\* 5 * (cos, sin) of the angles whose cosine and sine are multiples of 1/5
UnitDirs ==
    << <<5, 0>>, <<4, 3>>, <<3, 4>>, <<0, 5>>, <<-3, 4>>, <<-4, 3>>,
       <<-5, 0>>, <<-4, -3>>, <<-3, -4>>, <<0, -5>>, <<3, -4>>, <<4, -3>> >>

\* Ray.__init__: direction = Vector2(cos(angle), sin(angle)) * length
Ray(source, angle, length) ==
    [source |-> source,
     length |-> length,
     direction |-> <<(UnitDirs[angle][1] * length) \div 5,
                     (UnitDirs[angle][2] * length) \div 5>>]

\* the numerators of ua and ub and their denominator
RayParams(self, line) ==
    LET x1 == self.source.x
        y1 == self.source.y
        x2 == self.source.x + self.direction[1]
        y2 == self.source.y + self.direction[2]
        x3 == line.start.x
        y3 == line.start.y
        x4 == line.end.x
        y4 == line.end.y
    IN  [denominator |-> (y4 - y3) * (x2 - x1) - (x4 - x3) * (y2 - y1),
         ua |-> (x4 - x3) * (y1 - y3) - (y4 - y3) * (x1 - x3),
         ub |-> (x2 - x1) * (y1 - y3) - (y2 - y1) * (x1 - x3)]

\* n / d < 0 or n / d > 1, for d /= 0
OutsideUnit(n, d) ==
    IF d > 0 THEN n < 0 \/ n > d
             ELSE n > 0 \/ n < d

\* a mutant of Ray.intersects_line: ub is not range-checked
Ray_intersects_line_noUb(self, line) ==
    LET q == RayParams(self, line)
        dx == self.direction[1]
        dy == self.direction[2]
        sg == IF q.denominator < 0 THEN -1 ELSE 1
    IN  IF \/ dx = 0 /\ dy = 0
           \/ line.start.x = line.end.x /\ line.start.y = line.end.y
        THEN NONE
        ELSE IF q.denominator = 0 THEN NONE
        ELSE IF OutsideUnit(q.ua, q.denominator) THEN NONE
        ELSE RPoint(sg * (self.source.x * q.denominator + q.ua * dx),
                    sg * (self.source.y * q.denominator + q.ua * dy),
                    sg * q.denominator)

Ray_intersects_line(self, line) ==
    LET q == RayParams(self, line)
        dx == self.direction[1]
        dy == self.direction[2]
        sg == IF q.denominator < 0 THEN -1 ELSE 1
    IN  IF \/ dx = 0 /\ dy = 0
           \/ line.start.x = line.end.x /\ line.start.y = line.end.y
        THEN NONE
        ELSE IF q.denominator = 0 THEN NONE
        ELSE IF OutsideUnit(q.ua, q.denominator) \/ OutsideUnit(q.ub, q.denominator)
        THEN NONE
        ELSE RPoint(sg * (self.source.x * q.denominator + q.ua * dx),
                    sg * (self.source.y * q.denominator + q.ua * dy),
                    sg * q.denominator)

\* math.hypot(source.x - p.x, source.y - p.y) squared, as a fraction [n, d]
DistSq(source, p) ==
    [n |-> (p.xn - source.x * p.d) * (p.xn - source.x * p.d)
           + (p.yn - source.y * p.d) * (p.yn - source.y * p.d),
     d |-> p.d * p.d]

\* a < b for fractions with positive denominators
FracLess(a, b) == a.n * b.d < b.n * a.d

\* a mutant of ConsiderWall: every hit replaces the nearest one
ConsiderWall_lastHit(self, st, wall) ==
    LET intersects_at == Ray_intersects_line(self, wall)
    IN  IF intersects_at = NONE THEN st
        ELSE [nearest_wall_distance |-> DistSq(self.source, intersects_at),
              nearest_wall_intersection_point |-> intersects_at]

\* the body of the loop of Ray._set_end_point; distances are kept squared
ConsiderWall(self, st, wall) ==
    LET intersects_at == Ray_intersects_line(self, wall)
    IN  IF intersects_at = NONE THEN st
        ELSE LET distance_to_wall == DistSq(self.source, intersects_at)
             IN  IF FracLess(distance_to_wall, st.nearest_wall_distance)
                 THEN [nearest_wall_distance |-> distance_to_wall,
                       nearest_wall_intersection_point |-> intersects_at]
                 ELSE st

RECURSIVE NearestOver(_, _, _, _)
NearestOver(self, st, walls, i) ==
    IF i > Len(walls) THEN st
    ELSE NearestOver(self, ConsiderWall(self, st, walls[i]), walls, i + 1)

\* Ray._set_end_point: the value given to self.end_point
_set_end_point(self, walls) ==
    LET st == NearestOver(self,
                  [nearest_wall_distance |-> [n |-> self.length * self.length, d |-> 1],
                   nearest_wall_intersection_point |-> NONE],
                  walls, 1)
    IN  IF st.nearest_wall_intersection_point /= NONE
        THEN st.nearest_wall_intersection_point
        ELSE RPoint(self.source.x + self.direction[1],
                    self.source.y + self.direction[2], 1)

-----------------------------------------------------------------------------
(* The functions on their own: arguments drawn from small sets             *)

\* coordinates 0..GridMax
GridMax == 2

\* walls in a wall list
MaxWalls == 2

Grid == 0..GridMax

GridPoints == {Point(x, y) : x \in Grid, y \in Grid}

GridSegments == {Segment("BoundaryWall", s, e) : s \in GridPoints, e \in GridPoints}

\* the frame loop stands still in the function specifications
FrameIdle ==
    /\ running = TRUE
    /\ frame = 0
    /\ keys = {}
    /\ mouse = Point(0, 0)
    /\ button = FALSE
    /\ pos = Point(0, 0)
    /\ mouse_old = Point(0, 0)
    /\ WALLS = InitialWalls
    /\ SPEED_MOV = _SPEED
    /\ SPEED_ROT = _SPEED
    /\ DELTA_TIME = 0
    /\ draw_i = 1
    /\ ray_i = 1
    /\ SCREEN = <<>>

(* BoundaryWall.intersects_line *)

InitCcw ==
    /\ pc = "call"
    /\ args \in [self : GridSegments, line : GridSegments]
    /\ ret = NONE
    /\ FrameIdle

CallBWIntersectsLine ==
    /\ pc = "call"
    /\ ret' = BW_intersects_line(args.self, args.line)
    /\ pc' = "done"
    /\ UNCHANGED <<frameVars, args>>

SpecCcw == InitCcw /\ [][CallBWIntersectsLine]_vars

(* LightSource.intersects_any_line *)

MoverWalls ==
    { Segment("Wall", Point(1, -1), Point(1, 3)),
      Segment("Wall", Point(-1, 1), Point(3, 1)),
      Segment("Wall", Point(3, 1), Point(-1, 1)),
      Segment("Wall", Point(-1, -1), Point(3, 3)),
      Segment("Wall", Point(3, -1), Point(-1, 3)),
      Segment("Wall", Point(2, 3), Point(2, -1)) }

\* the sequences over S of length at most n
SeqsUpTo(S, n) == UNION {[1..m -> S] : m \in 0..n}

InitMover ==
    /\ pc = "call"
    /\ args \in [self_pos : GridPoints, new_pos : GridPoints,
                 direction : {"LEFT", "RIGHT"}, walls : SeqsUpTo(MoverWalls, MaxWalls)]
    /\ ret = NONE
    /\ FrameIdle

CallIntersectsAnyLine ==
    /\ pc = "call"
    /\ ret' = intersects_any_line(args.self_pos, args.new_pos, args.direction, args.walls)
    /\ pc' = "done"
    /\ UNCHANGED <<frameVars, args>>

SpecMover == InitMover /\ [][CallIntersectsAnyLine]_vars

(* Ray.intersects_line and Ray._set_end_point *)

RayLengths == {0, 1, 2, 5}

RayWalls ==
    { Segment("Wall", Point(1, -1), Point(1, 3)),
      Segment("Wall", Point(2, 0), Point(2, 2)),
      Segment("Wall", Point(-1, 1), Point(3, 1)),
      Segment("Wall", Point(3, -1), Point(-1, 3)),
      Segment("Wall", Point(1, 1), Point(1, 1)),
      Segment("Wall", Point(0, 0), Point(2, 0)) }

\* the direction vector is integral
ExactRay(r, a, l) ==
    /\ (UnitDirs[a][1] * l) % 5 = 0
    /\ (UnitDirs[a][2] * l) % 5 = 0

RayArgs ==
    {[source |-> s, angle |-> a, length |-> l] :
        s \in GridPoints,
        a \in 1..Len(UnitDirs),
        l \in RayLengths}

InitRay ==
    /\ pc = "call"
    /\ \E r \in RayArgs :
          /\ ExactRay(r, r.angle, r.length)
          /\ \/ \E line \in GridSegments \cup RayWalls :
                   args = [fn |-> "intersects_line", ray |-> r, line |-> line]
             \/ \E walls \in SeqsUpTo(RayWalls, MaxWalls) :
                   args = [fn |-> "_set_end_point", ray |-> r, walls |-> walls]
    /\ ret = NONE
    /\ FrameIdle

ArgRay == Ray(args.ray.source, args.ray.angle, args.ray.length)

CallRayIntersectsLine ==
    /\ pc = "call"
    /\ args.fn = "intersects_line"
    /\ ret' = Ray_intersects_line(ArgRay, args.line)
    /\ pc' = "done"
    /\ UNCHANGED <<frameVars, args>>

CallSetEndPoint ==
    /\ pc = "call"
    /\ args.fn = "_set_end_point"
    /\ ret' = _set_end_point(ArgRay, args.walls)
    /\ pc' = "done"
    /\ UNCHANGED <<frameVars, args>>

NextRay ==
    \/ CallRayIntersectsLine
    \/ CallSetEndPoint

SpecRay == InitRay /\ [][NextRay]_vars

-----------------------------------------------------------------------------
(* Properties                                                              *)

MoveKeys == {"w", "s", "a", "d"}

\* the LightSource is the object drawn next
LightTurn ==
    /\ pc = "draw"
    /\ draw_i <= Len(DRAWABLES)
    /\ DRAWABLES[draw_i].kind = "light"

Crossing(p, q, walls) ==
    {i \in 1..Len(walls) : BW_intersects_line(Segment("Wall", p, q), walls[i])}

\* index of the first wall of the list that crosses the segment p-q, or 0
FirstCrossing(p, q, walls) ==
    IF Crossing(p, q, walls) = {} THEN 0
    ELSE CHOOSE i \in Crossing(p, q, walls) : \A j \in Crossing(p, q, walls) : i <= j

\* twice the signed area of the triangle A, B, C
Orient(A, B, C) == (B.x - A.x) * (C.y - A.y) - (B.y - A.y) * (C.x - A.x)

\* P and Q lie strictly on opposite sides of the line through A and B
OppositeSides(P, Q, A, B) == Orient(A, B, P) * Orient(A, B, Q) < 0

\* P and Q lie strictly on the same side of the line through A and B
SameSide(P, Q, A, B) == Orient(A, B, P) * Orient(A, B, Q) > 0

Reversed(seg) == [seg EXCEPT !.start = seg.end, !.end = seg.start]

Kinds(scr, kind) == {i \in 1..Len(scr) : scr[i].kind = kind}

(* C1: after every frame the light source lies inside the canvas,
   0 <= x <= CANVAS_WIDTH and 0 <= y <= CANVAS_HEIGHT, also after a slide
   along a wall. *)
C1_PositionInsideCanvas ==
    /\ 0 <= pos.x /\ pos.x <= CANVAS_WIDTH
    /\ 0 <= pos.y /\ pos.y <= CANVAS_HEIGHT

(* C2: in a frame where the pointer has not moved and one movement key is
   held, if the segment from the current position to the requested (clamped)
   position crosses a wall, the light source does not end at the requested
   position. *)
C2_NoMoveThroughWall ==
    [][\A k \in MoveKeys :
          ( /\ LightTurn
            /\ mouse = mouse_old
            /\ keys \cap MoveKeys = {k}
            /\ Crossing(pos, Requested(pos, k, MoveStep), WALLS) /= {} )
          => pos' /= Requested(pos, k, MoveStep)]_vars

(* C3: when the first wall crossed by the movement segment is axis-aligned
   for the travel direction (its dx or dy is zero), intersects_any_line
   returns the current position unchanged. *)
C3_AxisAlignedWallBlocks ==
    (pc = "done" /\ FirstCrossing(args.self_pos, args.new_pos, args.walls) /= 0)
    => LET wall == args.walls[FirstCrossing(args.self_pos, args.new_pos, args.walls)]
           angle == get_angle(wall, args.direction)
       IN  (angle[1] = 0 \/ angle[2] = 0) => ret = args.self_pos

\* the points where the ray of the call meets the walls of the call
HitPoints ==
    {Ray_intersects_line(ArgRay, args.walls[i]) : i \in 1..Len(args.walls)} \ {NONE}

\* equality of two rational points
SamePoint(p, q) == p.xn * q.d = q.xn * p.d /\ p.yn * q.d = q.yn * p.d

FracLeq(a, b) == a.n * b.d <= b.n * a.d

ReverseSeq(sq) == [i \in 1..Len(sq) |-> sq[Len(sq) + 1 - i]]

(* C4: _set_end_point always yields an end point; if some wall is hit it is
   a hit point no farther from the source than any other hit point, whatever
   the order of the walls; if no wall is hit it is source + direction. *)
C4_EndPointIsNearestHit ==
    (pc = "done" /\ args.fn = "_set_end_point")
    => /\ ret /= NONE
       /\ HitPoints = {} =>
             ret = RPoint(ArgRay.source.x + ArgRay.direction[1],
                          ArgRay.source.y + ArgRay.direction[2], 1)
       /\ HitPoints /= {} =>
             /\ \E h \in HitPoints : SamePoint(ret, h)
             /\ \A h \in HitPoints :
                   FracLeq(DistSq(ArgRay.source, ret), DistSq(ArgRay.source, h))
       /\ SamePoint(ret, _set_end_point(ArgRay, ReverseSeq(args.walls)))

C4_Witness ==
    /\ pc = "done"
    /\ args.fn = "_set_end_point"
    /\ Len(args.walls) = 2
    /\ Ray_intersects_line(ArgRay, args.walls[1]) /= NONE
    /\ Ray_intersects_line(ArgRay, args.walls[2]) /= NONE
    /\ FracLess(DistSq(ArgRay.source, Ray_intersects_line(ArgRay, args.walls[2])),
                DistSq(ArgRay.source, Ray_intersects_line(ArgRay, args.walls[1])))
    /\ ret = Ray_intersects_line(ArgRay, args.walls[2])

\* the rational point p lies on the closed segment A-B
OnSegment(p, A, B) ==
    /\ (p.xn - A.x * p.d) * (B.y - A.y) = (p.yn - A.y * p.d) * (B.x - A.x)
    /\ Min(A.x, B.x) * p.d <= p.xn /\ p.xn <= Max(A.x, B.x) * p.d
    /\ Min(A.y, B.y) * p.d <= p.yn /\ p.yn <= Max(A.y, B.y) * p.d

RayEnd == Point(ArgRay.source.x + ArgRay.direction[1],
                ArgRay.source.y + ArgRay.direction[2])

\* no segment is a point, the lines are not parallel, and neither segment
\* lies strictly on one side of the other's line
SegmentsMeet(A, B, C, D) ==
    /\ A /= B
    /\ C /= D
    /\ (B.x - A.x) * (D.y - C.y) - (B.y - A.y) * (D.x - C.x) /= 0
    /\ ~SameSide(C, D, A, B)
    /\ ~SameSide(A, B, C, D)

(* C5: Ray.intersects_line returns None exactly when a segment has zero
   length, the lines are parallel or collinear, or the lines meet outside
   one of the segments; otherwise it returns a point that lies on the ray
   segment and on the wall segment, endpoints included. *)
C5_IntersectsLineExact ==
    (pc = "done" /\ args.fn = "intersects_line")
    => /\ ret = NONE <=>
             ~SegmentsMeet(ArgRay.source, RayEnd, args.line.start, args.line.end)
       /\ ret /= NONE =>
             /\ ret.d > 0
             /\ OnSegment(ret, ArgRay.source, RayEnd)
             /\ OnSegment(ret, args.line.start, args.line.end)

\* the wall is met at one of its endpoints, the ray is not
C5_Witness ==
    /\ pc = "done"
    /\ args.fn = "intersects_line"
    /\ ret /= NONE
    /\ ret.xn = args.line.end.x * ret.d
    /\ ret.yn = args.line.end.y * ret.d
    /\ ret.d > 1

(* C6: within a frame all wall rotations come first, then the movement of
   the light source, then the ray casts; while rays are on the screen every
   ray starts at the position of the light source, which is where its marker
   was drawn, and every wall is where it was drawn. *)
C6_PhasesOrdered ==
    /\ [](pc \in {"loop", "draw", "rays", "quit"} =>
            /\ \A i, j \in 1..Len(SCREEN) :
                  i < j => ~(\/ SCREEN[i].kind = "ray" /\ SCREEN[j].kind /= "ray"
                             \/ SCREEN[i].kind = "circle" /\ SCREEN[j].kind = "line")
            /\ Kinds(SCREEN, "circle") /= {} =>
                  /\ Cardinality(Kinds(SCREEN, "line")) = Len(WALLS)
                  /\ \A i \in 1..Len(WALLS) :
                        SCREEN[i] = [kind |-> "line", start |-> WALLS[i].start,
                                     end |-> WALLS[i].end]
                  /\ \A i \in Kinds(SCREEN, "circle") : SCREEN[i].center = pos
            /\ \A i \in Kinds(SCREEN, "ray") : SCREEN[i].source = pos)
    /\ [][(WALLS' /= WALLS => Kinds(SCREEN, "circle") \cup Kinds(SCREEN, "ray") = {})
          /\ (pos' /= pos => Kinds(SCREEN, "ray") = {}
                             /\ Cardinality(Kinds(SCREEN, "line")) = Len(WALLS))]_vars

\* a frame in which the walls turned, the light source slid and rays were cast
C6_Witness ==
    /\ pc = "draw"
    /\ Cardinality(Kinds(SCREEN, "ray")) = ray_density
    /\ WALLS /= InitialWalls
    /\ "a" \in keys
    /\ pos /= mouse

(* C7: in a frame where the pointer is not where it was last recorded, the
   light source goes exactly to the pointer, whatever movement keys are held,
   and the pointer is recorded; the recorded pointer position changes in no
   other case. *)
C7_PointerOverridesKeys ==
    [][/\ (LightTurn /\ mouse /= mouse_old) => (pos' = mouse /\ mouse_old' = mouse)
       /\ (LightTurn /\ mouse = mouse_old) => mouse_old' = mouse_old
       /\ ~LightTurn => (pos' = pos /\ mouse_old' = mouse_old)]_vars

\* second frame: the pointer moved while S was held with a positive step
C7_Witness ==
    /\ frame = 1
    /\ pc = "draw"
    /\ draw_i > Len(DRAWABLES)
    /\ keys = {"s"}
    /\ MoveStep > 0
    /\ pos = mouse
    /\ pos.y < CANVAS_HEIGHT

(* C8: intersects_any_line returns the candidate position when no wall
   crosses the movement segment, and otherwise what the lowest-index crossing
   wall alone decides (block or slide), whatever later walls cross and
   wherever the slide ends. *)
C8_FirstCrossingWallDecides ==
    pc = "done"
    => LET k == FirstCrossing(args.self_pos, args.new_pos, args.walls)
       IN  ret = IF k = 0 THEN args.new_pos
                 ELSE ResolveAgainst(args.self_pos, args.new_pos, args.direction,
                                     args.walls[k])

\* two walls cross, they decide differently, and the slide ends across a wall
C8_Witness ==
    /\ pc = "done"
    /\ Cardinality(Crossing(args.self_pos, args.new_pos, args.walls)) = 2
    /\ ret = ResolveAgainst(args.self_pos, args.new_pos, args.direction, args.walls[1])
    /\ ret /= ResolveAgainst(args.self_pos, args.new_pos, args.direction, args.walls[2])
    /\ ret /= args.self_pos
    /\ Crossing(args.self_pos, ret, args.walls) /= {}

\* no endpoint of one segment lies on the line through the other
GeneralPosition(A, B, C, D) ==
    /\ Orient(A, B, C) /= 0
    /\ Orient(A, B, D) /= 0
    /\ Orient(C, D, A) /= 0
    /\ Orient(C, D, B) /= 0

\* the result for the other receiver and for the other orientations
Symmetric(self, line) ==
    /\ ret = BW_intersects_line(line, self)
    /\ ret = BW_intersects_line(Reversed(self), line)
    /\ ret = BW_intersects_line(self, Reversed(line))

(* C9 as stated: for all endpoints, intersects_line is true iff C, D are on
   opposite sides of AB and A, B on opposite sides of CD, and the result
   depends neither on the receiver nor on the orientation of a segment. *)
C9_OppositeSidesAlways ==
    pc = "done"
    => LET A == args.self.start
           B == args.self.end
           C == args.line.start
           D == args.line.end
       IN  /\ ret <=> (OppositeSides(C, D, A, B) /\ OppositeSides(A, B, C, D))
           /\ Symmetric(args.self, args.line)

(* C9 amended: when no endpoint of one segment lies on the line through the
   other, intersects_line is true iff the endpoints of each segment are on
   opposite sides of the other, and receiver and orientation do not matter;
   in every case it is true if both pairs are strictly on opposite sides and
   false if a pair is strictly on one side, if a segment has zero length or
   if all four points are collinear. *)
C9_OppositeSidesGeneralPosition ==
    pc = "done"
    => LET A == args.self.start
           B == args.self.end
           C == args.line.start
           D == args.line.end
       IN  /\ GeneralPosition(A, B, C, D) =>
                 /\ ret <=> (OppositeSides(C, D, A, B) /\ OppositeSides(A, B, C, D))
                 /\ Symmetric(args.self, args.line)
           /\ (OppositeSides(C, D, A, B) /\ OppositeSides(A, B, C, D)) => ret
           /\ (SameSide(C, D, A, B) \/ SameSide(A, B, C, D)) => ~ret
           /\ (A = B \/ C = D) => ~ret
           /\ (Orient(A, B, C) = 0 /\ Orient(A, B, D) = 0) => ~ret

\* two segments in general position that cross
C9_Witness ==
    /\ pc = "done"
    /\ GeneralPosition(args.self.start, args.self.end, args.line.start, args.line.end)
    /\ ret = TRUE

\* some wall crosses p-q and the first one that does is not a blocking one
SlidesOn(p, q, direction, walls) ==
    /\ FirstCrossing(p, q, walls) /= 0
    /\ ~AngleInBlockList(get_angle(walls[FirstCrossing(p, q, walls)], direction))

(* C10: a slide never moves the light source against the requested
   horizontal direction: sliding on a LEFT move gives x <= the current x, on
   a RIGHT move x >= the current x, for every orientation the walls reach. *)
C10_SlideKeepsDirection ==
    [][(LightTurn /\ mouse = mouse_old) =>
          /\ ( /\ keys \cap MoveKeys = {"a"}
               /\ SlidesOn(pos, Requested(pos, "a", MoveStep), "LEFT", WALLS) )
             => pos'.x <= pos.x
          /\ ( /\ keys \cap MoveKeys = {"d"}
               /\ SlidesOn(pos, Requested(pos, "d", MoveStep), "RIGHT", WALLS) )
             => pos'.x >= pos.x]_vars

====
